---- MODULE Spec2Model ----
(***************************************************************************)
(* A model of the statistical prediction engine of src/src/api/            *)
(* prediction.ts (class LottoPredictionEngine and predictLottoNumbers).    *)
(*                                                                         *)
(* Number representation.  The engine computes in IEEE-754 doubles; the    *)
(* model computes the same quantities exactly, as integers over a stated   *)
(* common denominator:                                                     *)
(*   - a weight of PredictionWeights is counted in twentieths              *)
(*     (0.25 = 5/20, 0.20 = 4/20, 0.15 = 3/20, 0.10 = 2/20);               *)
(*   - a score of number n is the integer                                  *)
(*       score * ScoreDen / 100     with ScoreDen = 0.8 * maxFreq * total  *)
(*     (maxFreq the largest all-time frequency, total the total weighted   *)
(*     draw count), so that scores of one analysis compare as integers;    *)
(*   - the confidence is counted in halves (confidence 50 is 100);         *)
(*   - a value that can be NaN is a record [nan, val].                     *)
(* Array indices are 1-based here and 0-based in the source: the draw at   *)
(* source index i is draws[i + 1].                                         *)
(***************************************************************************)
EXTENDS Integers, Sequences, FiniteSets, TLC

(***************************************************************************)
(* Program constants.                                                      *)
(***************************************************************************)
MaxNumber == 49
RecentWindow == 100
maxAttempts == 1000
SetSize == 6

Numbers == 1..MaxNumber

(***************************************************************************)
(* Values that may be NaN (0/0 on an empty history).                       *)
(***************************************************************************)
Num(v) == [nan |-> FALSE, val |-> v]
NaN == [nan |-> TRUE, val |-> 0]
\* JavaScript comparisons: every comparison with NaN is false.
NumGeq(a, b) == ~a.nan /\ ~b.nan /\ a.val >= b.val
NumLeq(a, b) == ~a.nan /\ ~b.nan /\ a.val <= b.val
NumGt(a, b) == ~a.nan /\ ~b.nan /\ a.val > b.val
NumLt(a, b) == ~a.nan /\ ~b.nan /\ a.val < b.val

(***************************************************************************)
(* Bounds of the inputs.                                                   *)
(***************************************************************************)
MaxBlock == 4
RandDen == 2
MaxPermuted == 3

(***************************************************************************)
(* Draws (LottoDraw) and the histories the engine is run on.               *)
(***************************************************************************)
MkDraw(date, b1, b2, b3, b4, b5, b6, bb) ==
    [Date |-> date, B1 |-> b1, B2 |-> b2, B3 |-> b3, B4 |-> b4, B5 |-> b5,
     B6 |-> b6, BB |-> bb]

DrawA == MkDraw("01/01/2024", 1, 2, 3, 4, 5, 6, 7)
DrawB == MkDraw("08/01/2024", 5, 1, 4, 2, 9, 3, 10)
DrawC == MkDraw("15/01/2024", 49, 12, 30, 41, 23, 38, 9)
DrawPool == {DrawA, DrawB, DrawC}

Repeat(d, k) == [i \in 1..k |-> d]

\* Two blocks of identical draws, each of 0..MaxBlock draws.
BlockHistories ==
    {Repeat(a, i) \o Repeat(b, j) : a \in DrawPool, b \in DrawPool,
                                    i \in 0..MaxBlock, j \in 0..MaxBlock}

\* The synthetic history of the specification's test: 150 identical draws.
SyntheticHistory == Repeat(DrawA, 150)

\* A history in which 9 was drawn twice and then not for 20 draws.
OverdueHistory == Repeat(DrawB, 2) \o Repeat(DrawA, 20)

\* A history of 102 draws: two draws before the last 100, and a last draw
\* that differs from the 99 before it.
BoundaryHistory == <<DrawB, DrawA>> \o Repeat(DrawA, 99) \o <<DrawC>>

\* A history with twelve overdue numbers: six not drawn for 13 draws and six
\* not drawn for 10.
DrawD == MkDraw("22/01/2024", 44, 8, 27, 15, 33, 22, 2)
DueHistory == Repeat(DrawC, 3) \o Repeat(DrawD, 3) \o Repeat(DrawA, 10)

\* A history in which most draws have exactly two consecutive pairs (10-11
\* and 20-21).
DrawE == MkDraw("29/01/2024", 10, 11, 20, 21, 30, 40, 5)
PairsHistory == Repeat(DrawE, 10) \o Repeat(DrawA, 2)

LongHistories ==
    {SyntheticHistory, OverdueHistory, BoundaryHistory, DueHistory, PairsHistory}

Histories == BlockHistories \cup LongHistories

(***************************************************************************)
(* Small helpers.                                                          *)
(***************************************************************************)
MainNumbers(draw) == <<draw.B1, draw.B2, draw.B3, draw.B4, draw.B5, draw.B6>>

\* A variant of the numbers of a draw that counts the bonus ball as well.
MainSetWithBonus(draw) ==
    {draw.B1, draw.B2, draw.B3, draw.B4, draw.B5, draw.B6, draw.BB}

MainSet(draw) == {draw.B1, draw.B2, draw.B3, draw.B4, draw.B5, draw.B6}
DrawSum(draw) == draw.B1 + draw.B2 + draw.B3 + draw.B4 + draw.B5 + draw.B6

\* A function evaluated once over its whole domain (the value is the same).
Table(f) == f @@ <<>>

\* s[lo] + ... + s[hi], by halves.
RECURSIVE SumRange(_, _, _)
SumRange(s, lo, hi) ==
    IF lo > hi THEN 0
    ELSE IF lo = hi THEN s[lo]
         ELSE SumRange(s, lo, (lo + hi) \div 2) + SumRange(s, (lo + hi) \div 2 + 1, hi)

\* array.reduce((a, b) => a + b, 0)
SeqSum(s) == SumRange(s, 1, Len(s))

\* s[lo] \o ... \o s[hi] for a sequence of sequences, by halves.
RECURSIVE ConcatRange(_, _, _)
ConcatRange(s, lo, hi) ==
    IF lo > hi THEN <<>>
    ELSE IF lo = hi THEN s[lo]
         ELSE ConcatRange(s, lo, (lo + hi) \div 2)
              \o ConcatRange(s, (lo + hi) \div 2 + 1, hi)

Flatten(s) == ConcatRange(s, 1, Len(s))

SeqSet(s) == {s[i] : i \in DOMAIN s}

Max(a, b) == IF a >= b THEN a ELSE b
Min(a, b) == IF a <= b THEN a ELSE b

\* Array.prototype.slice(-k): the last k elements (all of them if fewer).
LastK(s, k) == SubSeq(s, Max(1, Len(s) - k + 1), Len(s))
\* Array.prototype.slice(0, k): the first k elements.
FirstK(s, k) == SubSeq(s, 1, Min(k, Len(s)))

\* numbers.sort((a, b) => a - b) on distinct or repeated integers.
RECURSIVE SortAsc(_)
SortAsc(s) ==
    IF s = <<>> THEN <<>>
    ELSE LET m == CHOOSE x \in SeqSet(s) : \A y \in SeqSet(s) : x <= y
             i == CHOOSE k \in DOMAIN s : s[k] = m
         IN <<m>> \o SortAsc(SubSeq(s, 1, i - 1) \o SubSeq(s, i + 1, Len(s)))

IsAscending(s) == \A i \in 1..(Len(s) - 1) : s[i] < s[i + 1]

\* Object.entries(table).sort((a, b) => b[1] - a[1]).map(key): the keys of
\* `keys` by value descending; the sort is stable and Object.entries lists
\* integer keys in ascending order, so equal values keep ascending keys.
RankDesc(keys, val) ==
    LET v == Table([n \in keys |-> val[n]])
        before == Table([n \in keys |->
                     Cardinality({m \in keys : v[m] > v[n] \/ (v[m] = v[n] /\ m < n)})])
    IN [i \in 1..Cardinality(keys) |-> CHOOSE n \in keys : before[n] = i - 1]

\* The ascending sequence of a set of integers.
AscSeq(S) == RankDesc(S, [n \in S |-> 0])

(***************************************************************************)
(* Frequency analysis.                                                     *)
(***************************************************************************)
\* A variant of isRecent with a strict comparison.
IsRecentStrict(d, i) == i - 1 > Len(d) - RecentWindow

\* isRecent: index >= this.draws.length - 100, for the draw at d[i].
IsRecent(d, i) == i - 1 >= Len(d) - RecentWindow

\* Double weight for the last 100 draws.
DrawWeight(d, i) == IF IsRecent(d, i) THEN 2 ELSE 1

\* The weight frequency[num] has gathered after the forEach over the draws.
WeightedCount(d, num) ==
    SeqSum([i \in 1..Len(d) |-> IF num \in MainSet(d[i]) THEN DrawWeight(d, i) ELSE 0])

\* A table of the source holds a key only for a number it has counted; the
\* model holds 0 for the others (the source reads them as `table[n] || 0`).
calculateAllTimeFrequency(d) == Table([num \in Numbers |-> WeightedCount(d, num)])

calculateRecentFrequency(d, drawCount) ==
    LET recentDraws == LastK(d, drawCount)
    IN Table([num \in Numbers |->
           Cardinality({i \in DOMAIN recentDraws : num \in MainSet(recentDraws[i])})])

\* Math.max(...Object.values(table)) for a table with at least one key.
MaxValue(table) == CHOOSE v \in {table[n] : n \in DOMAIN table} :
                       \A n \in DOMAIN table : table[n] <= v

(***************************************************************************)
(* Gap analysis.                                                           *)
(***************************************************************************)

\* A variant of the gaps of one number that doubles a gap when the earlier
\* of its two appearances is within the last 100 draws.
GapsOfByLastSeen(d, num) ==
    LET appearances == SelectSeq([i \in 1..Len(d) |-> i - 1],
                                 LAMBDA index : num \in MainSet(d[index + 1]))
        pushed == [k \in 1..(Len(appearances) - 1) |->
                     LET index == appearances[k + 1]
                         lastSeen == appearances[k]
                         gapSize == index - lastSeen
                         isRecentGap == lastSeen >= Len(d) - RecentWindow
                     IN IF isRecentGap THEN <<gapSize, gapSize>> ELSE <<gapSize>>]
    IN IF Len(appearances) = 0 THEN <<>>
       ELSE LET lastSeen == appearances[Len(appearances)]
                currentGap == Len(d) - 1 - lastSeen
                isRecentPosition == lastSeen >= Len(d) - RecentWindow
            IN Flatten(pushed)
               \o (IF isRecentPosition THEN <<currentGap, currentGap>> ELSE <<currentGap>>)

\* The gaps of one number.  The scan of calculateGaps visits the draws in
\* order and keeps lastSeen, the index of the previous appearance: at the
\* k-th appearance (k > 1) it pushes the distance to the (k-1)-th, twice when
\* the draw is recent; after the scan it pushes the current gap, twice when
\* the last appearance is recent.  Indices are the source's (0-based).
GapsOf(d, num) ==
    LET appearances == SelectSeq([i \in 1..Len(d) |-> i - 1],
                                 LAMBDA index : num \in MainSet(d[index + 1]))
        pushed == [k \in 1..(Len(appearances) - 1) |->
                     LET index == appearances[k + 1]
                         lastSeen == appearances[k]
                         gapSize == index - lastSeen
                         isRecentGap == index >= Len(d) - RecentWindow
                     IN IF isRecentGap THEN <<gapSize, gapSize>> ELSE <<gapSize>>]
    IN IF Len(appearances) = 0 THEN <<>>
       ELSE LET lastSeen == appearances[Len(appearances)]
                currentGap == Len(d) - 1 - lastSeen
                isRecentPosition == lastSeen >= Len(d) - RecentWindow
            IN Flatten(pushed)
               \o (IF isRecentPosition THEN <<currentGap, currentGap>> ELSE <<currentGap>>)

calculateGaps(d) == Table([num \in Numbers |-> GapsOf(d, num)])

\* gapArray[gapArray.length - 1] || 0
CurrentGap(gapArray) == IF gapArray = <<>> THEN 0 ELSE gapArray[Len(gapArray)]

\* A variant of the total that doubles every draw, the older ones included.
calculateTotalWeightedDrawsDoubled(d) == Len(d) * 2

calculateTotalWeightedDraws(d) ==
    LET totalDraws == Len(d)
    IN IF totalDraws <= RecentWindow THEN totalDraws * 2
       ELSE (totalDraws - RecentWindow) + (RecentWindow * 2)

\* expectedGaps[num] is the fraction numer / denom.
calculateExpectedGaps(d) ==
    LET totalWeightedDraws == calculateTotalWeightedDraws(d)
        frequency == calculateAllTimeFrequency(d)
    IN Table([num \in Numbers |->
           IF frequency[num] > 0
           THEN [numer |-> totalWeightedDraws, denom |-> frequency[num]]
           ELSE [numer |-> totalWeightedDraws, denom |-> 1]])

(***************************************************************************)
(* Pattern and distribution analysis.                                      *)
(***************************************************************************)
\* The number of adjacent pairs differing by 1 in the sorted main numbers.
ConsecutiveCount(draw) ==
    LET numbers == SortAsc(MainNumbers(draw))
    IN Cardinality({i \in 1..(Len(numbers) - 1) : numbers[i + 1] = numbers[i] + 1})

\* consecutivePatterns[count] is the number of draws with `count` pairs; the
\* source's frequency is that number divided by this.draws.length.
analyzeConsecutivePatterns(d) ==
    LET consecutiveCount == Table([i \in 1..Len(d) |-> ConsecutiveCount(d[i])])
    IN Table([count \in 0..5 |->
                Cardinality({i \in 1..Len(d) : consecutiveCount[i] = count})])

\* Each draw's sum, pushed once or (a recent draw) twice.
WeightedSums(d) ==
    Flatten([i \in 1..Len(d) |->
               IF IsRecent(d, i) THEN <<DrawSum(d[i]), DrawSum(d[i])>>
               ELSE <<DrawSum(d[i])>>])

SumSquares(s) == SeqSum([i \in 1..Len(s) |-> s[i] * s[i]])

\* The sum distribution, kept as the exact sums it is made of:
\*   mean = total / count,  variance = squares / count - mean^2,
\* all NaN when count = 0.
analyzeSumDistribution(d) ==
    LET weightedSums == WeightedSums(d)
    IN [count |-> Len(weightedSums), total |-> SeqSum(weightedSums),
        squares |-> SumSquares(weightedSums)]

\* The integer square roots of x >= 0, rounded down and up.
\* The largest k in lo..hi with k * k <= x, by bisection.
RECURSIVE SqrtSearch(_, _, _)
SqrtSearch(x, lo, hi) ==
    IF lo = hi THEN lo
    ELSE LET mid == (lo + hi + 1) \div 2
         IN IF mid * mid <= x THEN SqrtSearch(x, mid, hi) ELSE SqrtSearch(x, lo, mid - 1)

FloorSqrt(x) == SqrtSearch(x, 0, 46340)
CeilSqrt(x) == IF FloorSqrt(x) * FloorSqrt(x) = x THEN FloorSqrt(x) ELSE FloorSqrt(x) + 1

\* A variant of the optimal sum range that rounds down (Math.floor) where the
\* code rounds to the nearest integer.
calculateOptimalSumRangeFloor(d) ==
    LET distribution == analyzeSumDistribution(d)
        count == distribution.count
        disc == count * distribution.squares - distribution.total * distribution.total
    IN IF count = 0
       THEN [min |-> NaN, max |-> NaN, target |-> NaN]
       ELSE [min |-> Num((distribution.total - CeilSqrt(disc)) \div count),
             max |-> Num((distribution.total + FloorSqrt(disc)) \div count),
             target |-> Num(distribution.total \div count)]

\* Math.round(mean - stdDev), Math.round(mean + stdDev), Math.round(mean),
\* with Math.round(x) = floor(x + 1/2) and stdDev = sqrt(disc) / count,
\* disc = count * squares - total^2.
calculateOptimalSumRange(d) ==
    LET distribution == analyzeSumDistribution(d)
        count == distribution.count
        twice == 2 * distribution.total + count
        disc4 == 4 * (count * distribution.squares - distribution.total * distribution.total)
    IN IF count = 0
       THEN [min |-> NaN, max |-> NaN, target |-> NaN]
       ELSE [min |-> Num((twice - CeilSqrt(disc4)) \div (2 * count)),
             max |-> Num((twice + FloorSqrt(disc4)) \div (2 * count)),
             target |-> Num(twice \div (2 * count))]

(***************************************************************************)
(* Hot, cold, due and avoid numbers.                                       *)
(***************************************************************************)
\* A variant of the hot numbers that ranks all of 1..49, the numbers absent
\* from the last 15 draws included (with frequency 0).
identifyHotNumbersOfAll(d) ==
    LET recentFreq == calculateRecentFrequency(d, 15)
    IN FirstK(RankDesc(Numbers, recentFreq), 12)

identifyHotNumbers(d) ==
    LET recentFreq == calculateRecentFrequency(d, 15)
    IN FirstK(RankDesc({n \in Numbers : recentFreq[n] > 0}, recentFreq), 12)

identifyColdNumbers(d) ==
    LET recentFreq == calculateRecentFrequency(d, 20)
    IN FirstK(AscSeq({num \in Numbers : recentFreq[num] = 0}), 15)

\* A variant of the due threshold: currentGap > expected * 2.
IsDueOverTwice(currentGap, expected) == currentGap * expected.denom > 2 * expected.numer

\* currentGap > expected * 1.5, with expected = numer / denom.
IsDue(currentGap, expected) == 2 * currentGap * expected.denom > 3 * expected.numer

\* A variant of the due list in ascending order of currentGap / expected.
identifyDueNumbersAscending(d) ==
    LET gaps == calculateGaps(d)
        expectedGaps == calculateExpectedGaps(d)
        due == {num \in Numbers : IsDue(CurrentGap(gaps[num]), expectedGaps[num])}
    IN FirstK(RankDesc(due, [n \in due |-> 0 - CurrentGap(gaps[n]) * expectedGaps[n].denom]),
              10)

\* The comparator orders by currentGap / expected descending; the expected
\* gaps of one history share their numerator, so currentGap * denom orders
\* the same way.
identifyDueNumbers(d) ==
    LET gaps == calculateGaps(d)
        expectedGaps == calculateExpectedGaps(d)
        due == {num \in Numbers : IsDue(CurrentGap(gaps[num]), expectedGaps[num])}
    IN FirstK(RankDesc(due, [n \in due |-> CurrentGap(gaps[n]) * expectedGaps[n].denom]), 10)

identifyAvoidNumbers(d) ==
    LET recentFreq == calculateRecentFrequency(d, 10)
    IN FirstK(RankDesc({n \in Numbers : recentFreq[n] >= 3}, recentFreq), 8)

\* avgHighs is highs / count over the last 10 draws (NaN when there are none).
detectPatterns(d) ==
    LET recentDraws == LastK(d, 10)
        highs == SeqSum([i \in DOMAIN recentDraws |->
                           Cardinality({k \in 1..6 : MainNumbers(recentDraws[i])[k] > 24})])
        count == Len(recentDraws)
        consecutivePatterns == analyzeConsecutivePatterns(d)
        \* consecutivePatterns.find(p => p.count >= 2): the entry of count 2
        recentConsecutive == consecutivePatterns[2]
    IN (IF count > 0 /\ highs > 4 * count
        THEN <<"Recent bias toward high numbers">> ELSE <<>>)
       \o (IF count > 0 /\ highs < 2 * count
           THEN <<"Recent bias toward low numbers">> ELSE <<>>)
       \o (IF Len(d) > 0 /\ 10 * recentConsecutive > 3 * Len(d)
           THEN <<"Higher than normal consecutive number frequency">> ELSE <<>>)

\* Array.prototype.slice(-from, -to) with from > to > 0: the elements from
\* the from-th last up to, not including, the to-th last.
SliceFromEnd(s, from, to) == SubSeq(s, Max(Len(s) - from, 0) + 1, Max(Len(s) - to, 0))

\* recentTrend = recentAvg - olderAvg and volatility = sqrt(variance of the
\* recent sums); an average over an empty window is 0 / 0 = NaN.  The trend
\* is held times (recent length * older length), the volatility as its
\* square times (recent length squared).
analyzeTrends(d) ==
    LET recentSums == [i \in 1..Len(LastK(d, 10)) |-> DrawSum(LastK(d, 10)[i])]
        olderSums == [i \in 1..Len(SliceFromEnd(d, 20, 10)) |->
                         DrawSum(SliceFromEnd(d, 20, 10)[i])]
        n == Len(recentSums)
        m == Len(olderSums)
    IN [recentTrend |-> IF n = 0 \/ m = 0 THEN NaN
                        ELSE Num(SeqSum(recentSums) * m - SeqSum(olderSums) * n),
        volatility |-> IF n = 0 THEN NaN
                       ELSE Num(n * SumSquares(recentSums)
                                - SeqSum(recentSums) * SeqSum(recentSums))]

\* The sums of the last 30 draws; cycleLength is pushed when no offset i of
\* the loop (i < cycleLength and i + cycleLength < sums.length) has
\* Math.abs(sums[i] - sums[i + cycleLength]) > 10.
detectCycles(d) ==
    LET sums == Table([i \in 1..Len(LastK(d, 30)) |-> DrawSum(LastK(d, 30)[i])])
        isPattern(cycleLength) ==
            \A i \in 0..(cycleLength - 1) :
                i + cycleLength < Len(sums) =>
                    sums[i + 1] - sums[i + cycleLength + 1] \in -10..10
    IN SelectSeq(<<3, 4, 5, 6, 7, 8, 9, 10>>, isPattern)

\* The mean and the variance of each position B1..B6, kept as the exact sums
\* they are made of (mean = total / count, variance = squares / count -
\* mean^2, both NaN when count = 0).
analyzePositionPatterns(d) ==
    [pos \in 1..6 |->
        LET values == [i \in 1..Len(d) |-> MainNumbers(d[i])[pos]]
        IN [count |-> Len(values), total |-> SeqSum(values), squares |-> SumSquares(values)]]

\* The weighted count of main numbers in each of the five bands.
analyzeRangeDistribution(d) ==
    LET band(lo, hi) ==
            SeqSum([i \in 1..Len(d) |->
                      DrawWeight(d, i) * Cardinality({k \in 1..6 : MainNumbers(d[i])[k] \in lo..hi})])
    IN [r1to10 |-> band(1, 10), r11to20 |-> band(11, 20), r21to30 |-> band(21, 30),
        r31to40 |-> band(31, 40), r41to49 |-> band(41, MaxNumber)]

performCompleteAnalysis(d) ==
    [allTimeFrequency |-> calculateAllTimeFrequency(d),
     recentFrequency |-> calculateRecentFrequency(d, 20),
     gaps |-> calculateGaps(d),
     expectedGaps |-> calculateExpectedGaps(d),
     consecutivePatterns |-> analyzeConsecutivePatterns(d),
     positionPatterns |-> analyzePositionPatterns(d),
     sumDistribution |-> analyzeSumDistribution(d),
     rangeDistribution |-> analyzeRangeDistribution(d),
     trends |-> analyzeTrends(d),
     cycles |-> detectCycles(d),
     hotNumbers |-> identifyHotNumbers(d),
     coldNumbers |-> identifyColdNumbers(d),
     dueNumbers |-> identifyDueNumbers(d),
     avoidNumbers |-> identifyAvoidNumbers(d),
     optimalSumRange |-> calculateOptimalSumRange(d),
     detectedPatterns |-> detectPatterns(d)]

(***************************************************************************)
(* Scores.                                                                 *)
(***************************************************************************)
WeightKeys == {"frequency", "recency", "gaps", "patterns", "distribution", "correlation"}

\* The defaults of the constructor, in twentieths.
DefaultWeights ==
    [frequency |-> 5, recency |-> 4, gaps |-> 4, patterns |-> 3,
     distribution |-> 2, correlation |-> 2]

\* { ...defaults, ...customWeights }
MergeWeights(customWeights) ==
    [k \in WeightKeys |-> IF k \in DOMAIN customWeights THEN customWeights[k]
                          ELSE DefaultWeights[k]]

\* Math.max(...Object.values(allTimeFrequency)); 0 stands for the -Infinity
\* of an empty table, where every quotient allTimeFreq / maxFreq is -0.
MaxFreq(analysis) == MaxValue(analysis.allTimeFrequency)

\* A variant of the base score whose recency term is not capped.
BaseScoreUncapped(analysis, w, maxFreq, num) ==
    LET allTimeFreq == analysis.allTimeFrequency[num]
        recentFreq == analysis.recentFrequency[num]
        currentGap == CurrentGap(analysis.gaps[num])
        expectedGap == analysis.expectedGaps[num]
        total == expectedGap.numer
    IN IF maxFreq = 0 THEN 0
       ELSE 4 * allTimeFreq * total * w.frequency
            + recentFreq * w.recency * maxFreq * total
            + Min(2 * currentGap * expectedGap.denom, 4 * total) * w.gaps * maxFreq

\* A variant of the base score that adds a term for the patterns weight.
BaseScoreWithPatterns(analysis, w, maxFreq, num) ==
    LET allTimeFreq == analysis.allTimeFrequency[num]
        recentFreq == analysis.recentFrequency[num]
        currentGap == CurrentGap(analysis.gaps[num])
        expectedGap == analysis.expectedGaps[num]
        total == expectedGap.numer
    IN IF maxFreq = 0 THEN 0
       ELSE 4 * allTimeFreq * total * w.frequency
            + Min(recentFreq, 4) * w.recency * maxFreq * total
            + Min(2 * currentGap * expectedGap.denom, 4 * total) * w.gaps * maxFreq
            + 4 * w.patterns * maxFreq * total

\* The three terms of a score, times 0.8 * maxFreq * total weighted draws / 1
\* and with the weights in twentieths:
\*   (allTimeFreq / maxFreq) * w.frequency * 100
\*   min(recentFreq * 25, 100) * w.recency
\*   min(gapRatio * 50, 100) * w.gaps,  gapRatio = currentGap / expectedGap
BaseScore(analysis, w, maxFreq, num) ==
    LET allTimeFreq == analysis.allTimeFrequency[num]
        recentFreq == analysis.recentFrequency[num]
        currentGap == CurrentGap(analysis.gaps[num])
        expectedGap == analysis.expectedGaps[num]
        total == expectedGap.numer
    IN IF maxFreq = 0 THEN 0
       ELSE 4 * allTimeFreq * total * w.frequency
            + Min(recentFreq, 4) * w.recency * maxFreq * total
            + Min(2 * currentGap * expectedGap.denom, 4 * total) * w.gaps * maxFreq

\* A variant of the hot multiplier that is skipped for a due number (an
\* else-if after the due test).
HotFactorUnlessDue(analysis, num) ==
    IF num \in SeqSet(analysis.hotNumbers) /\ num \notin SeqSet(analysis.dueNumbers)
    THEN 6 ELSE 5

\* A variant of the avoid multiplier: score *= -0.3.
AvoidFactorNegative(analysis, num) ==
    IF num \in SeqSet(analysis.avoidNumbers) THEN -3 ELSE 10

\* score *= 0.3, score *= 1.5, score *= 1.2: each factor as a numerator over
\* the denominators 10, 2 and 5 (a number outside the set keeps 10, 2, 5).
AvoidFactor(analysis, num) == IF num \in SeqSet(analysis.avoidNumbers) THEN 3 ELSE 10
DueFactor(analysis, num) == IF num \in SeqSet(analysis.dueNumbers) THEN 3 ELSE 2
HotFactor(analysis, num) == IF num \in SeqSet(analysis.hotNumbers) THEN 6 ELSE 5

calculateNumberScores(analysis, w) ==
    LET maxFreq == MaxFreq(analysis)
    IN Table([num \in Numbers |->
          BaseScore(analysis, w, maxFreq, num) * AvoidFactor(analysis, num)
            * DueFactor(analysis, num) * HotFactor(analysis, num)])

(***************************************************************************)
(* The random source.  Math.random() is a stream of doubles in [0, 1); a   *)
(* run reads it call by call.  The stream is a tape, of two values or of   *)
(* twelve, read cyclically; a value k < RandDen is the double k / RandDen; *)
(* the value RandDen is the largest double Math.random() returns (just     *)
(* below 1).                                                               *)
(***************************************************************************)
AlmostOne == RandDen
OrdinaryVals == 0..(RandDen - 1)

\* The streams of ordinary values.
OrdinaryTapes == {<<a, b>> : a \in OrdinaryVals, b \in OrdinaryVals}

\* The streams that hold the value just below 1: at every call, or at every
\* other call.
RoundingTapes == {<<AlmostOne, AlmostOne>>, <<AlmostOne, 0>>}

\* A stream of period 12 whose first call returns the value just below 1
\* and whose twelfth call returns 1 / RandDen: the first sampling attempt
\* pushes five numbers, the second six.
RetryTape == [i \in 1..12 |-> IF i = 1 THEN AlmostOne ELSE IF i = 12 THEN 1 ELSE 0]

\* The value of the call number `pos` (0 for the first call).
RandomAt(tp, pos) == tp[(pos % Len(tp)) + 1]

\* Math.floor(Math.random() * n)
RandomIndex(u, n) == IF u = AlmostOne THEN Max(n - 1, 0) ELSE (u * n) \div RandDen

\* Math.pow(0.8, index) in millionths, rounded down, for index 0..49.
DecayTable ==
    <<
      1000000, 800000, 640000, 512000, 409600, 327680, 262144, 209715,
      167772, 134217, 107374, 85899, 68719, 54975, 43980, 35184,
      28147, 22517, 18014, 14411, 11529, 9223, 7378, 5902,
      4722, 3777, 3022, 2417, 1934, 1547, 1237, 990,
      792, 633, 507, 405, 324, 259, 207, 166,
      132, 106, 85, 68, 54, 43, 34, 27,
      22, 17>>

Decay(index) == DecayTable[index + 1]

\* weights.reduce((a, b) => a + b, 0) for n weights.
TotalWeight(n) == SeqSum([index \in 1..n |-> Decay(index - 1)])

\* for (j ...) { random -= weights[j]; if (random <= 0) ... break }: the
\* index pushed, or -1 when the loop ends without a push.
RECURSIVE SubtractLoop(_, _, _)
SubtractLoop(random, j, n) ==
    IF j >= n THEN -1
    ELSE IF random - Decay(j) <= 0 THEN j
         ELSE SubtractLoop(random - Decay(j), j + 1, n)

\* The weighted choice among n available candidates.  For the value just
\* below 1 the product random * totalWeight is within rounding of
\* totalWeight, and the running subtraction of the same weights, rounded at
\* each step, leaves a residue above 0 (4.5e-16 for 45 candidates): the loop
\* ends without a push.
WeightedIndex(u, n) ==
    IF u = AlmostOne THEN -1
    ELSE SubtractLoop((u * TotalWeight(n)) \div RandDen, 0, n)

(***************************************************************************)
(* Selection.                                                              *)
(***************************************************************************)
\* Object.entries(scores).sort((a, b) => b[1] - a[1]).map(parseInt)
CandidateOrder(scores) == RankDesc(Numbers, scores)

\* One pass of the for loop (i = 0..5) of an attempt: each pass reads one
\* random value and pushes at most one available candidate.
RECURSIVE SamplePass(_, _, _, _, _)
SamplePass(cands, sel, i, tp, pos) ==
    IF i >= SetSize THEN sel
    ELSE LET availableCandidates == SelectSeq(cands, LAMBDA num : num \notin SeqSet(sel))
             j == WeightedIndex(RandomAt(tp, pos), Len(availableCandidates))
         IN SamplePass(cands,
                       IF j = -1 THEN sel ELSE Append(sel, availableCandidates[j + 1]),
                       i + 1, tp, pos + 1)

\* currentSum >= optimalSumRange.min && currentSum <= optimalSumRange.max
SumInRange(sel, range) ==
    NumGeq(Num(SeqSum(sel)), range.min) /\ NumLeq(Num(SeqSum(sel)), range.max)

(***************************************************************************)
(* Bonus ball, confidence, reasoning, alternative sets.                    *)
(***************************************************************************)
BonusCount(d, num) ==
    SeqSum([i \in 1..Len(d) |-> IF d[i].BB = num THEN DrawWeight(d, i) ELSE 0])

\* A variant of the bonus prediction that draws from all ten top candidates.
predictBonusBallTopTen(d, u) ==
    LET bonusFreq == Table([num \in Numbers |-> BonusCount(d, num)])
        sortedBonus == RankDesc(Numbers, bonusFreq)
        topBonus == FirstK(sortedBonus, 10)
        randomIndex == RandomIndex(u, Min(Len(topBonus), 10))
    IN topBonus[randomIndex + 1]

\* bonusScores[num] = freq / maxFreq * 100 orders the numbers as freq does
\* (every score is -0 on an empty history).
predictBonusBall(d, u) ==
    LET bonusFreq == Table([num \in Numbers |-> BonusCount(d, num)])
        sortedBonus == RankDesc(Numbers, bonusFreq)
        topBonus == FirstK(sortedBonus, 10)
        randomIndex == RandomIndex(u, Min(Len(topBonus), 5))
    IN topBonus[randomIndex + 1]

CountIn(sel, list) == Cardinality({i \in DOMAIN sel : sel[i] \in SeqSet(list)})

Abs(x) == IF x < 0 THEN -x ELSE x

\* A variant of the confidence that takes 10 off for an avoid number, where
\* the code takes 15 off.
calculateConfidenceAvoidTen(analysis, selectedNumbers) ==
    LET dueCount == CountIn(selectedNumbers, analysis.dueNumbers)
        hotCount == CountIn(selectedNumbers, analysis.hotNumbers)
        coldCount == CountIn(selectedNumbers, analysis.coldNumbers)
        avoidCount == CountIn(selectedNumbers, analysis.avoidNumbers)
        sum == SeqSum(selectedNumbers)
        target == analysis.optimalSumRange.target
    IN IF target.nan THEN NaN
       ELSE Num(Max(20, Min(190, 100 + 16 * dueCount + 10 * hotCount + 6 * coldCount
                                  - 20 * avoidCount - Abs(sum - target.val))))

\* The confidence in halves: 50 + 8 due + 5 hot + 3 cold - 15 avoid
\* - 0.5 |sum - target|, then Math.max(10, Math.min(95, confidence)), which
\* is NaN when confidence is.
calculateConfidence(analysis, selectedNumbers) ==
    LET dueCount == CountIn(selectedNumbers, analysis.dueNumbers)
        hotCount == CountIn(selectedNumbers, analysis.hotNumbers)
        coldCount == CountIn(selectedNumbers, analysis.coldNumbers)
        avoidCount == CountIn(selectedNumbers, analysis.avoidNumbers)
        sum == SeqSum(selectedNumbers)
        target == analysis.optimalSumRange.target
    IN IF target.nan THEN NaN
       ELSE Num(Max(20, Min(190, 100 + 16 * dueCount + 10 * hotCount + 6 * coldCount
                                  - 30 * avoidCount - Abs(sum - target.val))))

\* A variant of the reasoning that puts the hot sentence before the due one.
generateReasoningHotFirst(analysis, selectedNumbers) ==
    LET pick(list) == SelectSeq(selectedNumbers, LAMBDA n : n \in SeqSet(list))
        dueNumbers == pick(analysis.dueNumbers)
        hotNumbers == pick(analysis.hotNumbers)
        coldNumbers == pick(analysis.coldNumbers)
        low == Cardinality({i \in DOMAIN selectedNumbers : selectedNumbers[i] <= 16})
        mid == Cardinality({i \in DOMAIN selectedNumbers :
                              selectedNumbers[i] > 16 /\ selectedNumbers[i] <= 33})
        high == Cardinality({i \in DOMAIN selectedNumbers : selectedNumbers[i] > 33})
    IN <<[tag |-> "weighting", args |-> <<>>]>>
       \o (IF Len(hotNumbers) > 0 THEN <<[tag |-> "hot", args |-> hotNumbers]>> ELSE <<>>)
       \o (IF Len(dueNumbers) > 0 THEN <<[tag |-> "due", args |-> dueNumbers]>> ELSE <<>>)
       \o (IF Len(coldNumbers) > 0 THEN <<[tag |-> "cold", args |-> coldNumbers]>> ELSE <<>>)
       \o <<[tag |-> "sumWithinRange", args |-> <<SeqSum(selectedNumbers)>>]>>
       \o (IF Len(analysis.detectedPatterns) > 0
           THEN <<[tag |-> "patterns", args |-> analysis.detectedPatterns]>> ELSE <<>>)
       \o <<[tag |-> "distribution", args |-> <<low, mid, high>>]>>

\* The reasoning sentences, each as its template's tag and arguments.
generateReasoning(analysis, selectedNumbers) ==
    LET pick(list) == SelectSeq(selectedNumbers, LAMBDA n : n \in SeqSet(list))
        dueNumbers == pick(analysis.dueNumbers)
        hotNumbers == pick(analysis.hotNumbers)
        coldNumbers == pick(analysis.coldNumbers)
        low == Cardinality({i \in DOMAIN selectedNumbers : selectedNumbers[i] <= 16})
        mid == Cardinality({i \in DOMAIN selectedNumbers :
                              selectedNumbers[i] > 16 /\ selectedNumbers[i] <= 33})
        high == Cardinality({i \in DOMAIN selectedNumbers : selectedNumbers[i] > 33})
    IN <<[tag |-> "weighting", args |-> <<>>]>>
       \o (IF Len(dueNumbers) > 0 THEN <<[tag |-> "due", args |-> dueNumbers]>> ELSE <<>>)
       \o (IF Len(hotNumbers) > 0 THEN <<[tag |-> "hot", args |-> hotNumbers]>> ELSE <<>>)
       \o (IF Len(coldNumbers) > 0 THEN <<[tag |-> "cold", args |-> coldNumbers]>> ELSE <<>>)
       \o <<[tag |-> "sumWithinRange", args |-> <<SeqSum(selectedNumbers)>>]>>
       \o (IF Len(analysis.detectedPatterns) > 0
           THEN <<[tag |-> "patterns", args |-> analysis.detectedPatterns]>> ELSE <<>>)
       \o <<[tag |-> "distribution", args |-> <<low, mid, high>>]>>

\* candidatePool.splice(index, 1): the pool without the element at `index`.
Splice(pool, index) == SubSeq(pool, 1, index) \o SubSeq(pool, index + 2, Len(pool))

\* while (selected.length < 6 && candidatePool.length > 0): the selection in
\* pick order and the number of random values read.
RECURSIVE PoolSample(_, _, _, _)
PoolSample(pool, sel, tp, pos) ==
    IF Len(sel) < SetSize /\ Len(pool) > 0
    THEN LET randomIndex == RandomIndex(RandomAt(tp, pos), Len(pool))
         IN PoolSample(Splice(pool, randomIndex), Append(sel, pool[randomIndex + 1]),
                       tp, pos + 1)
    ELSE sel

StrategyPool(strategy, topCandidates, analysis) ==
    IF strategy = "conservative"
    THEN SelectSeq(topCandidates, LAMBDA n : analysis.allTimeFrequency[n] > 10)
    ELSE IF strategy = "aggressive"
         THEN FirstK(analysis.dueNumbers \o analysis.coldNumbers, 15)
         ELSE topCandidates

Strategies == <<"conservative", "aggressive", "balanced">>

\* A variant of the three passes that keeps every selection, also one of
\* fewer than six numbers.
RECURSIVE AlternativePassesKeepShort(_, _, _, _, _, _)
AlternativePassesKeepShort(set, topCandidates, analysis, tp, pos, acc) ==
    IF set >= 3 THEN acc
    ELSE LET selected == PoolSample(StrategyPool(Strategies[set + 1], topCandidates, analysis),
                                    <<>>, tp, pos)
         IN AlternativePassesKeepShort(set + 1, topCandidates, analysis, tp,
               pos + Len(selected),
               [alternatives |-> Append(acc.alternatives, SortAsc(selected)),
                picks |-> Append(acc.picks, Len(selected))])

\* The three passes of generateAlternativeSets: the sets kept so far and the
\* picks of each pass.
RECURSIVE AlternativePasses(_, _, _, _, _, _)
AlternativePasses(set, topCandidates, analysis, tp, pos, acc) ==
    IF set >= 3 THEN acc
    ELSE LET selected == PoolSample(StrategyPool(Strategies[set + 1], topCandidates, analysis),
                                    <<>>, tp, pos)
         IN AlternativePasses(set + 1, topCandidates, analysis, tp, pos + Len(selected),
               [alternatives |-> IF Len(selected) = SetSize
                                 THEN Append(acc.alternatives, SortAsc(selected))
                                 ELSE acc.alternatives,
                picks |-> Append(acc.picks, Len(selected))])

generateAlternativeSets(scores, analysis, tp, pos) ==
    AlternativePasses(0, FirstK(CandidateOrder(scores), 20), analysis, tp, pos,
                      [alternatives |-> <<>>, picks |-> <<>>])

(***************************************************************************)
(* The state: the caller's draw history and weights, the random stream,    *)
(* the engine's fields and the locals of generatePrediction and            *)
(* selectOptimalNumbers.                                                   *)
(***************************************************************************)
VARIABLES
    draws,            \* the caller's array, which the engine holds by reference
    customWeights,    \* the caller's partial weights
    tape,             \* the random stream
    rpos,             \* the number of Math.random() calls made by this invocation
    invocation,       \* 1 or 2: predictLottoNumbers is called twice
    previous,         \* the PredictionResult of the first invocation
    pc,               \* the position in generatePrediction
    weights,          \* this.weights
    analysis,
    scores,
    candidates,       \* selectOptimalNumbers: the candidate order
    selected,         \* selectOptimalNumbers: the array being filled
    attempts,         \* selectOptimalNumbers: the attempt counter
    suggestedNumbers,
    bonusBall,
    confidence,
    reasoning,
    alternativeSets,
    picks,            \* the picks of each pass of generateAlternativeSets
    result

vars == <<draws, customWeights, tape, rpos, invocation, previous, pc, weights,
          analysis, scores, candidates, selected, attempts, suggestedNumbers,
          bonusBall, confidence, reasoning, alternativeSets, picks, result>>

locals == <<analysis, scores, candidates, selected, attempts, suggestedNumbers,
            bonusBall, confidence, reasoning, alternativeSets, picks, result>>

caller == <<draws, customWeights, tape, invocation, previous>>

\* The partial weights a caller passes: none, or overrides in twentieths.
WeightChoices == {<<>>, [frequency |-> 0, gaps |-> 3, patterns |-> 7]}

\* The histories analysed with overridden weights: the long ones and those of
\* at most two draws.
WeightedHistories == LongHistories \cup {h \in BlockHistories : Len(h) <= 2}

\* The histories run against a stream that holds the value just below 1.
RoundingHistories == {<<>>, <<DrawB, DrawA>>, <<DrawC, DrawA>>}

\* new LottoPredictionEngine(draws, customWeights), about to run
\* generatePrediction.
Fresh ==
    /\ rpos = 0
    /\ pc = "analysis"
    /\ weights = MergeWeights(customWeights)
    /\ analysis = <<>>
    /\ scores = <<>>
    /\ candidates = <<>>
    /\ selected = <<>>
    /\ attempts = 0
    /\ suggestedNumbers = <<>>
    /\ bonusBall = 0
    /\ confidence = Num(0)
    /\ reasoning = <<>>
    /\ alternativeSets = <<>>
    /\ picks = <<>>
    /\ result = <<>>

Init ==
    /\ \/ draws \in Histories /\ customWeights = <<>> /\ tape \in OrdinaryTapes
       \/ draws \in WeightedHistories /\ customWeights \in WeightChoices \ {<<>>}
          /\ tape \in OrdinaryTapes
       \/ draws \in RoundingHistories /\ customWeights = <<>>
          /\ tape \in RoundingTapes \cup {RetryTape}
    /\ invocation = 1
    /\ previous = <<>>
    /\ Fresh

\* A variant of the analysis that reverses the caller's array in place, to
\* read the most recent draw first.
AnalyseReversing ==
    /\ pc = "analysis"
    /\ analysis' = performCompleteAnalysis(draws)
    /\ draws' = [i \in 1..Len(draws) |-> draws[Len(draws) + 1 - i]]
    /\ pc' = "scores"
    /\ UNCHANGED <<customWeights, tape, invocation, previous, rpos, weights, scores,
                   candidates, selected, attempts, suggestedNumbers, bonusBall,
                   confidence, reasoning, alternativeSets, picks, result>>

\* A variant of the analysis that takes the last 20 draws with splice(-20),
\* which removes them from the caller's array, where the code uses slice(-20).
AnalyseSplicing ==
    /\ pc = "analysis"
    /\ analysis' = performCompleteAnalysis(draws)
    /\ draws' = FirstK(draws, Max(0, Len(draws) - 20))
    /\ pc' = "scores"
    /\ UNCHANGED <<customWeights, tape, invocation, previous, rpos, weights, scores,
                   candidates, selected, attempts, suggestedNumbers, bonusBall,
                   confidence, reasoning, alternativeSets, picks, result>>

\* const analysis = this.performCompleteAnalysis();
Analyse ==
    /\ pc = "analysis"
    /\ analysis' = performCompleteAnalysis(draws)
    /\ pc' = "scores"
    /\ UNCHANGED <<caller, rpos, weights, scores, candidates, selected, attempts,
                   suggestedNumbers, bonusBall, confidence, reasoning,
                   alternativeSets, picks, result>>

\* const scores = this.calculateNumberScores(analysis);
Score ==
    /\ pc = "scores"
    /\ scores' = calculateNumberScores(analysis, weights)
    /\ pc' = "select"
    /\ UNCHANGED <<caller, rpos, weights, analysis, candidates, selected, attempts,
                   suggestedNumbers, bonusBall, confidence, reasoning,
                   alternativeSets, picks, result>>

\* selectOptimalNumbers, up to the while loop.
SelectStart ==
    /\ pc = "select"
    /\ candidates' = CandidateOrder(scores)
    /\ selected' = <<>>
    /\ attempts' = 0
    /\ pc' = "loop"
    /\ UNCHANGED <<caller, rpos, weights, analysis, scores, suggestedNumbers,
                   bonusBall, confidence, reasoning, alternativeSets, picks, result>>

\* A variant of the loop condition without the bound on the attempts.
LoopConditionUnbounded == Len(selected) < SetSize

\* while (selected.length < 6 && attempts < maxAttempts)
LoopCondition == Len(selected) < SetSize /\ attempts < maxAttempts

\* One iteration of the while loop: reset, six passes, the sum check.
SamplingAttempt ==
    /\ pc = "loop"
    /\ LoopCondition
    /\ LET sel == SamplePass(candidates, <<>>, 0, tape, rpos)
       IN /\ selected' = sel
          /\ IF SumInRange(sel, analysis.optimalSumRange)
             THEN pc' = "afterLoop" /\ attempts' = attempts       \* break
             ELSE pc' = "loop" /\ attempts' = attempts + 1
    /\ rpos' = rpos + SetSize
    /\ UNCHANGED <<caller, weights, analysis, scores, candidates, suggestedNumbers,
                   bonusBall, confidence, reasoning, alternativeSets, picks, result>>

\* A variant of the return of selectOptimalNumbers that also falls back when
\* an earlier attempt had failed.
SelectReturnAfterRetry ==
    /\ \/ pc = "loop" /\ ~LoopCondition
       \/ pc = "afterLoop"
    /\ suggestedNumbers' = IF Len(selected) # SetSize \/ attempts > 0
                           THEN FirstK(candidates, SetSize)
                           ELSE selected
    /\ pc' = "bonus"
    /\ UNCHANGED <<caller, rpos, weights, analysis, scores, candidates, selected,
                   attempts, bonusBall, confidence, reasoning, alternativeSets,
                   picks, result>>

\* A variant of the return of selectOptimalNumbers without the fallback.
SelectReturnNoFallback ==
    /\ \/ pc = "loop" /\ ~LoopCondition
       \/ pc = "afterLoop"
    /\ suggestedNumbers' = selected
    /\ pc' = "bonus"
    /\ UNCHANGED <<caller, rpos, weights, analysis, scores, candidates, selected,
                   attempts, bonusBall, confidence, reasoning, alternativeSets,
                   picks, result>>

\* The loop is left by its condition or by the break; then the fallback test
\* and the return.
SelectReturn ==
    /\ \/ pc = "loop" /\ ~LoopCondition
       \/ pc = "afterLoop"
    /\ suggestedNumbers' = IF Len(selected) # SetSize THEN FirstK(candidates, SetSize)
                           ELSE selected
    /\ pc' = "bonus"
    /\ UNCHANGED <<caller, rpos, weights, analysis, scores, candidates, selected,
                   attempts, bonusBall, confidence, reasoning, alternativeSets,
                   picks, result>>

\* const bonusBall = this.predictBonusBall(analysis);
PredictBonus ==
    /\ pc = "bonus"
    /\ bonusBall' = predictBonusBall(draws, RandomAt(tape, rpos))
    /\ rpos' = rpos + 1
    /\ pc' = "confidence"
    /\ UNCHANGED <<caller, weights, analysis, scores, candidates, selected, attempts,
                   suggestedNumbers, confidence, reasoning, alternativeSets, picks,
                   result>>

\* const confidence = this.calculateConfidence(analysis, suggestedNumbers);
Confidence ==
    /\ pc = "confidence"
    /\ confidence' = calculateConfidence(analysis, suggestedNumbers)
    /\ pc' = "reasoning"
    /\ UNCHANGED <<caller, rpos, weights, analysis, scores, candidates, selected,
                   attempts, suggestedNumbers, bonusBall, reasoning, alternativeSets,
                   picks, result>>

\* const reasoning = this.generateReasoning(analysis, suggestedNumbers);
Reasoning ==
    /\ pc = "reasoning"
    /\ reasoning' = generateReasoning(analysis, suggestedNumbers)
    /\ pc' = "alternatives"
    /\ UNCHANGED <<caller, rpos, weights, analysis, scores, candidates, selected,
                   attempts, suggestedNumbers, bonusBall, confidence, alternativeSets,
                   picks, result>>

\* const alternativeSets = this.generateAlternativeSets(scores, analysis);
Alternatives ==
    /\ pc = "alternatives"
    /\ LET out == generateAlternativeSets(scores, analysis, tape, rpos)
       IN /\ alternativeSets' = out.alternatives
          /\ picks' = out.picks
          /\ rpos' = rpos + SeqSum(out.picks)
    /\ pc' = "return"
    /\ UNCHANGED <<caller, weights, analysis, scores, candidates, selected, attempts,
                   suggestedNumbers, bonusBall, confidence, reasoning, result>>

\* A variant of the return statement that does not sort suggestedNumbers.
ReturnUnsorted ==
    /\ pc = "return"
    /\ result' = [suggestedNumbers |-> suggestedNumbers,
                  bonusBall |-> bonusBall,
                  confidence |-> confidence,
                  reasoning |-> reasoning,
                  statisticalBasis |->
                      [hotNumbers |-> analysis.hotNumbers,
                       coldNumbers |-> analysis.coldNumbers,
                       dueNumbers |-> analysis.dueNumbers,
                       avoidNumbers |-> analysis.avoidNumbers,
                       sumRange |-> analysis.optimalSumRange,
                       patterns |-> analysis.detectedPatterns],
                  alternativeSets |-> alternativeSets]
    /\ pc' = "done"
    /\ UNCHANGED <<caller, rpos, weights, analysis, scores, candidates, selected,
                   attempts, suggestedNumbers, bonusBall, confidence, reasoning,
                   alternativeSets, picks>>

\* The return statement; suggestedNumbers.sort() sorts the array in place.
Return ==
    /\ pc = "return"
    /\ suggestedNumbers' = SortAsc(suggestedNumbers)
    /\ result' = [suggestedNumbers |-> SortAsc(suggestedNumbers),
                  bonusBall |-> bonusBall,
                  confidence |-> confidence,
                  reasoning |-> reasoning,
                  statisticalBasis |->
                      [hotNumbers |-> analysis.hotNumbers,
                       coldNumbers |-> analysis.coldNumbers,
                       dueNumbers |-> analysis.dueNumbers,
                       avoidNumbers |-> analysis.avoidNumbers,
                       sumRange |-> analysis.optimalSumRange,
                       patterns |-> analysis.detectedPatterns],
                  alternativeSets |-> alternativeSets]
    /\ pc' = "done"
    /\ UNCHANGED <<caller, rpos, weights, analysis, scores, candidates, selected,
                   attempts, bonusBall, confidence, reasoning, alternativeSets, picks>>

\* The caller calls predictLottoNumbers again with the same arguments, the
\* random stream read from its start again.
Reinvoke ==
    /\ pc = "done"
    /\ invocation = 1
    /\ invocation' = 2
    /\ previous' = result
    /\ rpos' = 0
    /\ pc' = "analysis"
    /\ weights' = MergeWeights(customWeights)
    /\ analysis' = <<>>
    /\ scores' = <<>>
    /\ candidates' = <<>>
    /\ selected' = <<>>
    /\ attempts' = 0
    /\ suggestedNumbers' = <<>>
    /\ bonusBall' = 0
    /\ confidence' = Num(0)
    /\ reasoning' = <<>>
    /\ alternativeSets' = <<>>
    /\ picks' = <<>>
    /\ result' = <<>>
    /\ UNCHANGED <<draws, customWeights, tape>>

Next ==
    \/ Analyse
    \/ Score
    \/ SelectStart
    \/ SamplingAttempt
    \/ SelectReturn
    \/ PredictBonus
    \/ Confidence
    \/ Reasoning
    \/ Alternatives
    \/ Return

\* One call of predictLottoNumbers.
Spec == Init /\ [][Next]_vars

NextTwice ==
    \/ Next
    \/ Reinvoke

\* The control points of generatePrediction.
Labels == {"analysis", "scores", "select", "loop", "afterLoop", "bonus", "confidence",
           "reasoning", "alternatives", "return", "done"}

\* A call that has not returned moves on: every action of Next is guarded by
\* its control point alone (the two actions at "loop" by the loop condition
\* and its negation), and every step changes the control point or the
\* attempt counter.
Advance ==
    /\ pc # "done"
    /\ pc' \in Labels
    /\ attempts' \in {0, attempts, attempts + 1}

\* One call, run to its end: the call is a sequential program, so it keeps
\* executing until it returns.
FairSpec == Spec /\ WF_<<pc, attempts>>(Advance)

\* Two calls of predictLottoNumbers with the same arguments and random stream.
SpecTwice == Init /\ [][NextTwice]_vars

(***************************************************************************)
(* Properties.                                                             *)
(***************************************************************************)
Analysed == pc # "analysis"
Scored == pc \notin {"analysis", "scores"}
Selected == pc \in {"bonus", "confidence", "reasoning", "alternatives", "return", "done"}

\* Six pairwise-distinct numbers of 1..49.
ValidSet(s) ==
    /\ Len(s) = SetSize
    /\ Cardinality(SeqSet(s)) = SetSize
    /\ SeqSet(s) \subseteq Numbers

\* C1: for a non-empty history of valid draws, the returned suggestedNumbers
\* are exactly six pairwise-distinct numbers of 1..49 in ascending order and
\* the returned bonusBall is a number of 1..49.
C1_ValidPrediction ==
    (pc = "done" /\ Len(draws) > 0) =>
        /\ ValidSet(result.suggestedNumbers)
        /\ IsAscending(result.suggestedNumbers)
        /\ result.bonusBall \in Numbers

\* A prediction for a non-empty history whose sampled set was not ascending
\* before the return statement sorted it.
C1_Witness ==
    /\ pc = "done"
    /\ Len(draws) > 0
    /\ Len(selected) = SetSize
    /\ ~IsAscending(selected)
    /\ IsAscending(result.suggestedNumbers)

\* C2: for every history, the empty one included, the returned confidence is
\* a defined number within [10, 95] (20 and 190 in halves).
C2_ConfidenceInRange ==
    pc = "done" =>
        /\ ~result.confidence.nan
        /\ result.confidence.val >= 20
        /\ result.confidence.val <= 190

\* C3: whenever selectOptimalNumbers returns, for a non-empty history, a set
\* whose sum is outside the optimal sum range, the 1000 attempts have been
\* exhausted and the returned set is the first six of the candidate order.
C3_OutOfRangeOnlyAfterExhaustion ==
    (pc = "bonus" /\ Len(draws) > 0
       /\ ~SumInRange(suggestedNumbers, analysis.optimalSumRange)) =>
        /\ attempts = maxAttempts
        /\ suggestedNumbers = FirstK(candidates, SetSize)

\* The sampling loop has made at most 1000 attempts and each alternative-set
\* pass at most 6 picks.
LoopsBounded ==
    /\ attempts <= maxAttempts
    /\ \A s \in DOMAIN picks : picks[s] <= SetSize

\* C4: generatePrediction always terminates: the sampling loop makes at most
\* 1000 attempts, each alternative-set pass makes at most 6 picks, and every
\* run reaches its return.
C4_Terminates == []LoopsBounded /\ <>(pc = "done")

\* A run that exhausted the 1000 attempts and returned.
C4_Witness == pc = "done" /\ attempts = maxAttempts /\ Len(picks) = 3

C6_ScoresNonNegative ==
    (Scored /\ \A k \in WeightKeys : weights[k] >= 0) =>
        \A num \in Numbers : scores[num] >= 0

\* Scores where a multiplied number has a positive score.
C6_Witness ==
    /\ pc = "select"
    /\ \A k \in WeightKeys : weights[k] >= 0
    /\ \E num \in SeqSet(analysis.avoidNumbers) : scores[num] > 0
    /\ \E num \in SeqSet(analysis.dueNumbers) : scores[num] > 0
    /\ \E num \in SeqSet(analysis.hotNumbers) : scores[num] > 0

\* C7: two calls with the same history, the same weights and the same
\* sequence of random values return identical results.
C7_Deterministic == (invocation = 2 /\ pc = "done") => result = previous

\* The second call has returned, for a history whose order matters and with
\* a sample that is not the first six candidates.
C7_Witness ==
    /\ invocation = 2
    /\ pc = "done"
    /\ Len(draws) > 1
    /\ draws[1] # draws[Len(draws)]
    /\ result.suggestedNumbers # SortAsc(FirstK(candidates, SetSize))

\* C8: generatePrediction leaves the caller's draw sequence unchanged.
C8_DrawsUnchanged == [][draws' = draws]_vars

\* A run has returned for a history long enough for every slice to cut it.
C8_Witness == pc = "done" /\ Len(draws) > 20

\* C9, as the specification states it: on 150 draws [1..6] with bonus 7 the
\* all-time frequency of each of 1..6 is 250 and every never-drawn number,
\* 49 included, is in the cold set.
C9_AllNeverDrawnCold ==
    (Analysed /\ draws = SyntheticHistory) =>
        /\ \A num \in 1..6 : analysis.allTimeFrequency[num] = 250
        /\ \A num \in Numbers :
               analysis.allTimeFrequency[num] = 0 => num \in SeqSet(analysis.coldNumbers)

\* C9, amended: on that history the all-time frequency of each of 1..6 is
\* 250 and the cold set is the 15 smallest never-drawn numbers, 7..21.
C9_FifteenSmallestCold ==
    (Analysed /\ draws = SyntheticHistory) =>
        /\ \A num \in 1..6 : analysis.allTimeFrequency[num] = 250
        /\ analysis.coldNumbers = [i \in 1..15 |-> i + 6]
        /\ \A num \in SeqSet(analysis.coldNumbers) : analysis.allTimeFrequency[num] = 0

\* The 150-draw history has been analysed.
C9_Witness ==
    /\ pc = "scores"
    /\ draws = SyntheticHistory
    /\ Len(analysis.coldNumbers) = 15

\* The current gap of 9 is exactly twice its expected gap, which is > 0, and
\* no other number is over the due threshold.
OnlyNineAtTwice ==
    /\ analysis.expectedGaps[9].numer > 0
    /\ CurrentGap(analysis.gaps[9]) * analysis.expectedGaps[9].denom
           = 2 * analysis.expectedGaps[9].numer
    /\ \A num \in Numbers \ {9} :
           ~IsDue(CurrentGap(analysis.gaps[num]), analysis.expectedGaps[num])

\* The score of num had it not been boosted as a due number.
UnboostedScore(num) ==
    BaseScore(analysis, weights, MaxFreq(analysis), num)
        * AvoidFactor(analysis, num) * 2 * HotFactor(analysis, num)

\* C10: when 9 has a current gap of exactly twice its expected gap and no
\* other number is due, 9 is in the due set and its score is multiplied by
\* 1.5.
C10_NineDueAndBoosted ==
    (Scored /\ OnlyNineAtTwice) =>
        /\ 9 \in SeqSet(analysis.dueNumbers)
        /\ 2 * scores[9] = 3 * UnboostedScore(9)

\* Such a history has been scored, and the boost shows in a positive score.
C10_Witness ==
    /\ pc = "select"
    /\ OnlyNineAtTwice
    /\ analysis.dueNumbers = <<9>>
    /\ scores[9] > 0

\* C11: for every history of fewer than 10 draws (here: of 1 to 9 draws) the
\* trend record has a defined recentTrend and a defined volatility.
C11_TrendsDefined ==
    (Analysed /\ Len(draws) >= 1 /\ Len(draws) < 10) =>
        /\ ~analysis.trends.recentTrend.nan
        /\ ~analysis.trends.volatility.nan

\* The candidate pool of the strategy of pass s (1..3), from the scores and
\* the analysis.
PoolOf(s) == StrategyPool(Strategies[s], FirstK(CandidateOrder(scores), 20), analysis)

\* numbers.sort((a, b) => a - b) leaves no entry before a smaller one.
IsSorted(s) == \A i \in 1..(Len(s) - 1) : s[i] <= s[i + 1]

\* C12: alternativeSets holds at most 3 sets; each has exactly 6 entries in
\* ascending order, all taken from the candidate pool of its strategy; and a
\* strategy whose pool has fewer than 6 entries contributes no set (the sets
\* are those of the strategies with at least 6 pool entries, in order).
C12_AlternativeSetsShape ==
    pc = "done" =>
        LET top == FirstK(CandidateOrder(scores), 20)
            pools == Table([s \in 1..3 |-> StrategyPool(Strategies[s], top, analysis)])
            passes == SelectSeq(<<1, 2, 3>>, LAMBDA s : Len(pools[s]) >= SetSize)
        IN  /\ Len(alternativeSets) <= 3
            /\ Len(alternativeSets) = Len(passes)
            /\ \A k \in DOMAIN alternativeSets :
                   /\ Len(alternativeSets[k]) = SetSize
                   /\ IsSorted(alternativeSets[k])
                   /\ SeqSet(alternativeSets[k]) \subseteq SeqSet(pools[passes[k]])

\* A run where the conservative pool held fewer than six numbers and gave no
\* set, while the other two strategies did.
C12_Witness ==
    /\ pc = "done"
    /\ Len(draws) > 0
    /\ Len(PoolOf(1)) \in 1..(SetSize - 1)
    /\ Len(alternativeSets) = 2
    /\ picks[1] < SetSize

\* The history d with the draws at positions i and j exchanged.
Swap(d, i, j) ==
    [k \in 1..Len(d) |-> IF k = i THEN d[j] ELSE IF k = j THEN d[i] ELSE d[k]]

\* Position i of d is within the last 100 draws (index i - 1 >= length - 100).
InLastHundred(d, i) == i - 1 >= Len(d) - 100

\* Rearrangements of d that keep every draw on its side of the boundary:
\* every exchange of two different draws of one side, the reversal of a
\* history of at most 100 draws, and every permutation of a history of at
\* most MaxPermuted draws.
SidePreserving(d) ==
    {Swap(d, i, j) : <<i, j>> \in
        {q \in (1..Len(d)) \X (1..Len(d)) :
            /\ q[1] < q[2]
            /\ InLastHundred(d, q[1]) = InLastHundred(d, q[2])
            /\ d[q[1]] # d[q[2]]}}
    \cup (IF Len(d) <= 100 THEN {[k \in 1..Len(d) |-> d[Len(d) + 1 - k]]} ELSE {})
    \cup (IF Len(d) <= MaxPermuted
          THEN {[k \in 1..Len(d) |-> d[f[k]]] : f \in Permutations(1..Len(d))}
          ELSE {})

\* C13: the all-time frequency table is the same for every rearrangement of
\* the draws that keeps each draw on its side of the recency boundary, so for
\* every permutation of a history of at most 100 draws; exchanging the first
\* and the last draw of the 102-draw history, across the boundary, changes it.
C13_FrequencyPermutationInvariant ==
    pc = "scores" =>
        /\ \A r \in SidePreserving(draws) :
               calculateAllTimeFrequency(r) = analysis.allTimeFrequency
        /\ draws = BoundaryHistory =>
               calculateAllTimeFrequency(Swap(draws, 1, Len(draws)))
                   # analysis.allTimeFrequency

\* The 102-draw history has been analysed: it has rearrangements on the old
\* side and on the recent side that differ from it.
C13_Witness ==
    /\ pc = "scores"
    /\ Len(draws) > 100
    /\ Swap(draws, 1, 2) \in SidePreserving(draws) \ {draws}
    /\ Swap(draws, 3, Len(draws)) \in SidePreserving(draws) \ {draws}

\* The weight components that calculateNumberScores does not read, and
\* overrides of some of them (in twentieths, a negative one included).
UnusedKeys == {"patterns", "distribution", "correlation"}
UnusedOverrides == UNION {[S -> {-3, 9}] : S \in SUBSET UnusedKeys}

\* C14: the patterns, distribution and correlation weights do not influence
\* the scores: an engine on the same history whose weights differ only in
\* these three components computes the same score table; and the components
\* the caller leaves out keep their defaults (frequency 0.25, recency 0.20,
\* gaps 0.20: 5, 4 and 4 twentieths).
C14_UnusedWeightsIgnored ==
    pc = "select" =>
        /\ \A k \in WeightKeys \ DOMAIN customWeights : weights[k] = DefaultWeights[k]
        /\ \A k \in DOMAIN customWeights : weights[k] = customWeights[k]
        /\ DefaultWeights.frequency = 5
        /\ DefaultWeights.recency = 4
        /\ DefaultWeights.gaps = 4
        /\ \A u \in UnusedOverrides :
               calculateNumberScores(analysis, MergeWeights(u @@ customWeights)) = scores

\* Scores computed with an overridden patterns weight and a default recency
\* weight, some of them positive.
C14_Witness ==
    /\ pc = "select"
    /\ "patterns" \in DOMAIN customWeights
    /\ "recency" \notin DOMAIN customWeights
    /\ weights.patterns # DefaultWeights.patterns
    /\ \E num \in Numbers : scores[num] > 0

\* A step of the sampling loop that produces six numbers with a sum within
\* the optimal sum range leaves the loop without counting an attempt, and
\* the step after it returns exactly these numbers.
InRangeAttemptStops ==
    /\ (pc = "loop" /\ Len(selected') = SetSize
          /\ SumInRange(selected', analysis.optimalSumRange)) =>
            (pc' = "afterLoop" /\ attempts' = attempts)
    /\ (pc = "afterLoop" /\ Len(selected) = SetSize) =>
            (pc' = "bonus" /\ suggestedNumbers' = selected /\ selected' = selected)

\* A returned result whose last sample had six numbers with a sum in range
\* is that sample, sorted.
InRangeSampleReturned ==
    (pc = "done" /\ Len(selected) = SetSize
       /\ SumInRange(selected, analysis.optimalSumRange)) =>
        /\ result.suggestedNumbers = SortAsc(selected)
        /\ rpos >= SetSize * (attempts + 1)

\* C15: whenever a complete sampling attempt produces 6 numbers whose sum is
\* within the optimal sum range, the loop stops at that attempt and exactly
\* that set is returned; no later attempt replaces it.
C15_InRangeAttemptIsReturned == [][InRangeAttemptStops]_vars /\ []InRangeSampleReturned

\* A result whose in-range sample came from the second attempt and is not the
\* first six candidates.
C15_Witness ==
    /\ pc = "done"
    /\ attempts = 1
    /\ Len(selected) = SetSize
    /\ SumInRange(selected, analysis.optimalSumRange)
    /\ SeqSet(selected) # SeqSet(FirstK(candidates, SetSize))
    /\ result.suggestedNumbers = SortAsc(selected)

\* The positions of d whose six main numbers contain n, within the last 100
\* draws (recent = TRUE) or before them (recent = FALSE).
PositionsWith(d, n, recent) ==
    {i \in 1..Len(d) :
        /\ InLastHundred(d, i) = recent
        /\ n \in {d[i].B1, d[i].B2, d[i].B3, d[i].B4, d[i].B5, d[i].B6}}

\* C16: for every number n, allTimeFrequency[n] is twice the number of draws
\* among the last 100 (in storage order) whose main numbers contain n, plus
\* the number of earlier draws whose main numbers contain n; the bonus ball
\* does not count.
C16_FrequencyFormula ==
    pc = "scores" =>
        \A n \in Numbers :
            analysis.allTimeFrequency[n]
                = 2 * Cardinality(PositionsWith(draws, n, TRUE))
                  + Cardinality(PositionsWith(draws, n, FALSE))

\* The 102-draw history has been analysed: 1 was drawn before and within the
\* last 100 draws, and 10 was drawn as a bonus ball only.
C16_Witness ==
    /\ pc = "scores"
    /\ PositionsWith(draws, 1, FALSE) # {}
    /\ PositionsWith(draws, 1, TRUE) # {}
    /\ analysis.allTimeFrequency[1] = 200
    /\ \E i \in 1..Len(draws) : draws[i].BB = 10
    /\ analysis.allTimeFrequency[10] = 0

\* The indices (from 0) of the draws of d whose main numbers contain n, in
\* ascending order.
IndicesWith(d, n) ==
    SelectSeq([i \in 1..Len(d) |-> i - 1],
              LAMBDA i : n \in {d[i + 1].B1, d[i + 1].B2, d[i + 1].B3,
                                d[i + 1].B4, d[i + 1].B5, d[i + 1].B6})

\* The gap sequence g of a number with the appearance indices `at` in a
\* history of `length` draws is as C17 says.  The pairs of successive
\* appearances whose later index is below length - 100 come first, one entry
\* each; the other pairs follow with two entries each; the current gap is
\* last, once or twice.
GapsAsStated(g, at, length) ==
    LET m == Len(at)
        single == Cardinality({k \in 2..m : at[k] < length - 100})
        lastSeen == at[m]
        tail == IF lastSeen >= length - 100 THEN 2 ELSE 1
    IN IF m = 0 THEN g = <<>>
       ELSE /\ Len(g) = single + 2 * (m - 1 - single) + tail
            /\ \A k \in 1..single : g[k] = at[k + 1] - at[k]
            /\ \A k \in (single + 1)..(m - 1) :
                   /\ g[single + 2 * (k - single) - 1] = at[k + 1] - at[k]
                   /\ g[single + 2 * (k - single)] = at[k + 1] - at[k]
            /\ \A k \in (Len(g) - tail + 1)..Len(g) : g[k] = length - 1 - lastSeen

\* C17: for each number, calculateGaps yields the gap of every pair of
\* successive appearances, twice when the later index is >= length - 100 and
\* once otherwise, in scan order, followed by the current gap length - 1 -
\* lastSeen, twice when lastSeen >= length - 100 and once otherwise; a number
\* that never appears has an empty gap sequence and a current gap read as 0.
C17_GapSequences ==
    pc = "scores" =>
        \A n \in Numbers :
            /\ GapsAsStated(analysis.gaps[n], IndicesWith(draws, n), Len(draws))
            /\ IndicesWith(draws, n) = <<>> => CurrentGap(analysis.gaps[n]) = 0

\* The 102-draw history has been analysed: 1 has one single gap, 99 doubled
\* gaps and a doubled current gap, 9 a single current gap, 7 no gap.
C17_Witness ==
    /\ pc = "scores"
    /\ Len(draws) = 102
    /\ Len(analysis.gaps[1]) = 1 + 2 * 99 + 2
    /\ analysis.gaps[9] = <<101>>
    /\ analysis.gaps[7] = <<>>

\* The total weighted draws of the history: 2 for each of the last 100
\* draws, 1 for each earlier one.
TotalWeighted == IF Len(draws) <= 100 THEN 2 * Len(draws) ELSE Len(draws) + 100

\* currentGap[n] / expectedGap[n] times the total weighted draws, for a
\* number n that has appeared (expectedGap[n] = total / allTimeFrequency[n]).
RatioTimesTotal(n) == CurrentGap(analysis.gaps[n]) * analysis.allTimeFrequency[n]

\* The numbers that have appeared and whose current gap is over 1.5 times
\* their expected gap.
OverThreshold ==
    {n \in Numbers : /\ analysis.allTimeFrequency[n] > 0
                     /\ 2 * RatioTimesTotal(n) > 3 * TotalWeighted}

\* C18: the due set is the first 10 (or fewer) of the numbers with currentGap
\* > 1.5 x expectedGap in descending order of currentGap / expectedGap, where
\* expectedGap = totalWeightedDraws / allTimeFrequency; a number that never
\* appeared is not in it.
C18_DueSet ==
    pc = "scores" =>
        LET due == analysis.dueNumbers
        IN /\ Len(due) = Min(10, Cardinality(OverThreshold))
           /\ Cardinality(SeqSet(due)) = Len(due)
           /\ SeqSet(due) \subseteq OverThreshold
           /\ \A i \in 1..Len(due) : \A j \in i..Len(due) :
                  RatioTimesTotal(due[i]) >= RatioTimesTotal(due[j])
           /\ \A n \in OverThreshold \ SeqSet(due) : \A m \in SeqSet(due) :
                  RatioTimesTotal(m) >= RatioTimesTotal(n)
           /\ \A n \in Numbers :
                  /\ analysis.allTimeFrequency[n] > 0 =>
                         analysis.expectedGaps[n].numer * analysis.allTimeFrequency[n]
                             = TotalWeighted * analysis.expectedGaps[n].denom
                  /\ analysis.allTimeFrequency[n] = 0 => n \notin SeqSet(due)

\* An analysed history with more than 10 numbers over the threshold, of two
\* different ratios.
C18_Witness ==
    /\ pc = "scores"
    /\ Cardinality(OverThreshold) > 10
    /\ Len(analysis.dueNumbers) = 10
    /\ RatioTimesTotal(analysis.dueNumbers[1]) > RatioTimesTotal(analysis.dueNumbers[10])

\* The appearances of n among the main numbers of the last 20 draws.
RecentFreq20(n) ==
    Cardinality({i \in 1..Len(draws) :
        /\ i > Len(draws) - 20
        /\ n \in {draws[i].B1, draws[i].B2, draws[i].B3, draws[i].B4, draws[i].B5,
                   draws[i].B6}})

\* The score of n before the multipliers as C19 states it, times 20 (the
\* weights are in twentieths), times the greatest all-time frequency and
\* times the total weighted draws:
\*   (allTimeFreq / max) x w.frequency x 100
\*   + min(recentFreq20 x 25, 100) x w.recency
\*   + min(ratio x 50, 100) x w.gaps,  ratio = currentGap / expectedGap.
StatedBase(n) ==
    LET maxFreq == MaxFreq(analysis)
        total == TotalWeighted
        expectedDenom == IF analysis.allTimeFrequency[n] > 0
                         THEN analysis.allTimeFrequency[n] ELSE 1
    IN 100 * analysis.allTimeFrequency[n] * weights.frequency * total
       + Min(RecentFreq20(n) * 25, 100) * weights.recency * maxFreq * total
       + Min(50 * CurrentGap(analysis.gaps[n]) * expectedDenom, 100 * total)
             * weights.gaps * maxFreq

\* C19: before the multipliers, the score of each number is the sum of the
\* frequency term, the recency term capped at 4 appearances in the last 20
\* draws, and the gap term capped at ratio 2 (the ratio being 0 when the
\* expected gap is 0).  The model holds a score times 0.8 x max frequency x
\* total weighted draws, which is StatedBase / 25.
C19_BaseScore ==
    pc = "select" =>
        \A n \in Numbers :
            /\ StatedBase(n) % 25 = 0
            /\ scores[n] = (StatedBase(n) \div 25) * AvoidFactor(analysis, n)
                               * DueFactor(analysis, n) * HotFactor(analysis, n)

\* Scores of a history in which a number appeared more than 4 times in the
\* last 20 draws, and a number has a current gap of more than twice its
\* expected gap, under weights that make the three terms count.
C19_Witness ==
    /\ pc = "select"
    /\ weights.frequency > 0 /\ weights.recency > 0 /\ weights.gaps > 0
    /\ \E n \in Numbers : RecentFreq20(n) > 4 /\ scores[n] > 0
    /\ \E n \in Numbers :
           /\ analysis.allTimeFrequency[n] > 0
           /\ RatioTimesTotal(n) > 2 * TotalWeighted
           /\ scores[n] > 0

\* The sets of the analysis a number is in.
InAvoid(n) == \E i \in DOMAIN analysis.avoidNumbers : analysis.avoidNumbers[i] = n
InDue(n) == \E i \in DOMAIN analysis.dueNumbers : analysis.dueNumbers[i] = n
InHot(n) == \E i \in DOMAIN analysis.hotNumbers : analysis.hotNumbers[i] = n

\* C20: the final score of a number is its base score times 0.3 if it is in
\* the avoid set, times 1.5 if it is in the due set and times 1.2 if it is in
\* the hot set, each factor applied once and independently of the others
\* (the model holds the product times 100: the factors are 3 or 10 tenths,
\* 3 or 2 halves, 6 or 5 fifths).
C20_Multipliers ==
    pc = "select" =>
        \A n \in Numbers :
            LET base == BaseScore(analysis, weights, MaxFreq(analysis), n)
            IN /\ scores[n] = base * (IF InAvoid(n) THEN 3 ELSE 10)
                                   * (IF InDue(n) THEN 3 ELSE 2)
                                   * (IF InHot(n) THEN 6 ELSE 5)
               /\ (InAvoid(n) /\ InDue(n) /\ InHot(n)) => scores[n] = base * 54
               /\ (~InAvoid(n) /\ ~InDue(n) /\ ~InHot(n)) => scores[n] = base * 100

\* Scores where one number is in all three sets, one in the avoid and hot
\* sets only, and one with a positive score in none.
C20_Witness ==
    /\ pc = "select"
    /\ \E n \in Numbers : InAvoid(n) /\ InDue(n) /\ InHot(n) /\ scores[n] > 0
    /\ \E n \in Numbers : InAvoid(n) /\ ~InDue(n) /\ InHot(n) /\ scores[n] > 0
    /\ \E n \in Numbers : ~InAvoid(n) /\ ~InDue(n) /\ ~InHot(n)

\* The selected numbers that are in the list, counted with their repetitions.
Members(list) == SelectSeq(suggestedNumbers, LAMBDA n : \E i \in DOMAIN list : list[i] = n)

\* Twice 50 + 8 d + 5 h + 3 c - 15 a - 0.5 |sum - target|, for a defined target.
TwiceRawConfidence ==
    100 + 16 * Len(Members(analysis.dueNumbers)) + 10 * Len(Members(analysis.hotNumbers))
        + 6 * Len(Members(analysis.coldNumbers)) - 30 * Len(Members(analysis.avoidNumbers))
        - (IF SeqSum(suggestedNumbers) >= analysis.optimalSumRange.target.val
           THEN SeqSum(suggestedNumbers) - analysis.optimalSumRange.target.val
           ELSE analysis.optimalSumRange.target.val - SeqSum(suggestedNumbers))

\* C21: for a defined target sum, confidence = max(10, min(95, 50 + 8 d + 5 h
\* + 3 c - 15 a - 0.5 |sum - target|)), d, h, c and a counting the selected
\* numbers in the due, hot, cold and avoid lists (all values in halves).
C21_ConfidenceFormula ==
    (pc = "reasoning" /\ ~analysis.optimalSumRange.target.nan) =>
        /\ ~confidence.nan
        /\ confidence.val = (IF TwiceRawConfidence > 190 THEN 190
                             ELSE IF TwiceRawConfidence < 20 THEN 20
                             ELSE TwiceRawConfidence)

\* A confidence strictly inside the clamp to which a due, a hot, a cold and
\* an avoid number and a sum off the target all contribute.
C21_Witness ==
    /\ pc = "reasoning"
    /\ ~analysis.optimalSumRange.target.nan
    /\ Len(Members(analysis.dueNumbers)) > 0
    /\ Len(Members(analysis.hotNumbers)) > 0
    /\ Len(Members(analysis.coldNumbers)) > 0
    /\ Len(Members(analysis.avoidNumbers)) > 0
    /\ SeqSum(suggestedNumbers) # analysis.optimalSumRange.target.val
    /\ confidence.val \in 21..189
    /\ confidence.val = TwiceRawConfidence

\* The sentences of the reasoning list in the stated order.
SentenceOrder ==
    <<"weighting", "due", "hot", "cold", "sumWithinRange", "patterns", "distribution">>

\* The place of a sentence in the stated order.
OrderOf(tag) == CHOOSE k \in DOMAIN SentenceOrder : SentenceOrder[k] = tag

\* The reasoning list holds a sentence of this kind.
HasSentence(tag) == \E i \in DOMAIN reasoning : reasoning[i].tag = tag

\* The selected set contains at least one number of the list.
SelectsFrom(list) == SeqSet(suggestedNumbers) \cap SeqSet(list) # {}

\* C22: the reasoning list opens with the recency-weighting sentence; the
\* due, hot and cold sentences follow, each present exactly when the selected
\* set contains a number of that set; then the sum sentence, always; then the
\* patterns sentence exactly when patterns were detected; the distribution
\* sentence is last and its three counts (<= 16, 17..33, >= 34) add up to 6;
\* the length is between 3 and 7.
C22_ReasoningOrder ==
    pc = "alternatives" =>
        /\ Len(reasoning) \in 3..7
        /\ \A i \in DOMAIN reasoning :
               \E k \in DOMAIN SentenceOrder : reasoning[i].tag = SentenceOrder[k]
        /\ \A i \in 1..(Len(reasoning) - 1) :
               OrderOf(reasoning[i].tag) < OrderOf(reasoning[i + 1].tag)
        /\ reasoning[1].tag = "weighting"
        /\ HasSentence("due") <=> SelectsFrom(analysis.dueNumbers)
        /\ HasSentence("hot") <=> SelectsFrom(analysis.hotNumbers)
        /\ HasSentence("cold") <=> SelectsFrom(analysis.coldNumbers)
        /\ HasSentence("sumWithinRange")
        /\ HasSentence("patterns") <=> analysis.detectedPatterns # <<>>
        /\ LET last == reasoning[Len(reasoning)]
           IN /\ last.tag = "distribution"
              /\ last.args[1] + last.args[2] + last.args[3] = 6
              /\ last.args[1]
                    = Cardinality({i \in DOMAIN suggestedNumbers : suggestedNumbers[i] <= 16})
              /\ last.args[2]
                    = Cardinality({i \in DOMAIN suggestedNumbers :
                                     suggestedNumbers[i] \in 17..33})
              /\ last.args[3]
                    = Cardinality({i \in DOMAIN suggestedNumbers : suggestedNumbers[i] >= 34})

\* A reasoning list of all seven sentences: the selected set holds a due, a
\* hot and a cold number and a pattern was detected.
C22_Witness ==
    /\ pc = "alternatives"
    /\ Len(reasoning) = 7
    /\ SelectsFrom(analysis.dueNumbers)
    /\ SelectsFrom(analysis.hotNumbers)
    /\ SelectsFrom(analysis.coldNumbers)
    /\ analysis.detectedPatterns # <<>>

\* The weighted bonus-column frequency of n: 2 for each draw of the last 100
\* whose bonus ball is n, 1 for each older one.
BonusWeight(n) ==
    2 * Cardinality({i \in DOMAIN draws : draws[i].BB = n /\ InLastHundred(draws, i)})
    + Cardinality({i \in DOMAIN draws : draws[i].BB = n /\ ~InLastHundred(draws, i)})

\* The numbers ranked before n: a higher weighted frequency, or the same and
\* a smaller number.
RankedBefore(n) ==
    {m \in Numbers : \/ BonusWeight(m) > BonusWeight(n)
                     \/ BonusWeight(m) = BonusWeight(n) /\ m < n}

\* The history with the main numbers of every draw replaced by other ones
\* (each main number n by 50 - n), the bonus balls kept.
OtherMainNumbers(d) ==
    [i \in DOMAIN d |->
        [d[i] EXCEPT !.B1 = 50 - @, !.B2 = 50 - @, !.B3 = 50 - @,
                     !.B4 = 50 - @, !.B5 = 50 - @, !.B6 = 50 - @]]

ConsecutivePairs(draw) == Cardinality({n \in MainSet(draw) : n + 1 \in MainSet(draw)})

\* The draws of the history with 2 or more consecutive pairs.
MultiConsecutive == {i \in DOMAIN draws : ConsecutivePairs(draws[i]) >= 2}

\* C24: detectPatterns reports the elevated-consecutive pattern exactly when
\* the fraction of draws with 2 or more consecutive pairs exceeds 0.3.
C24_ElevatedConsecutive ==
    (pc = "scores" /\ Len(draws) > 0) =>
        ((\E k \in DOMAIN analysis.detectedPatterns :
             analysis.detectedPatterns[k] = "Higher than normal consecutive number frequency")
         <=> 10 * Cardinality(MultiConsecutive) > 3 * Len(draws))

\* The sums of the last 30 draws of the history.
LastSums == [i \in 1..Min(Len(draws), 30) |-> DrawSum(draws[Len(draws) - Min(Len(draws), 30) + i])]

\* The sums at every valid offset i and at i + L are within 10 of each other.
RepeatsEvery(L) ==
    \A i \in 0..(Len(LastSums) - 1) :
        i + L < Len(LastSums) =>
            /\ LastSums[i + 1] - LastSums[i + L + 1] <= 10
            /\ LastSums[i + L + 1] - LastSums[i + 1] <= 10

\* C25: detectCycles reports a cycle length L of 3..10 exactly when the sums
\* of the last 30 draws are within 10 of each other at i and i + L for every
\* valid offset i, not only for the first L offsets.
C25_CyclesAllOffsets ==
    pc = "scores" =>
        \A L \in 3..10 :
            (\E k \in DOMAIN analysis.cycles : analysis.cycles[k] = L) <=> RepeatsEvery(L)

\* The weighted multiset of draw sums: its size, its total and the total of
\* its squares (a draw of the last 100 contributes its sum twice).
SumWeight(i) == IF InLastHundred(draws, i) THEN 2 ELSE 1
MultisetSize == SeqSum([i \in DOMAIN draws |-> SumWeight(i)])
MultisetTotal == SeqSum([i \in DOMAIN draws |-> SumWeight(i) * DrawSum(draws[i])])
MultisetSquares ==
    SeqSum([i \in DOMAIN draws |-> SumWeight(i) * DrawSum(draws[i]) * DrawSum(draws[i])])

\* (size * standard deviation)^2 = size * squares - total^2.
Spread == MultisetSize * MultisetSquares - MultisetTotal * MultisetTotal

\* r is the mean rounded to the nearest integer, halves up:
\* r <= mean + 1/2 < r + 1, times 2 * size.
IsRoundedMean(r) ==
    /\ 2 * MultisetSize * r <= 2 * MultisetTotal + MultisetSize
    /\ 2 * MultisetTotal + MultisetSize < 2 * MultisetSize * (r + 1)

\* r is mean - stdDev rounded: r <= mean - stdDev + 1/2 < r + 1, that is
\* 2 sqrt(Spread) <= a and a - 2 size < 2 sqrt(Spread) for
\* a = 2 total + size - 2 size r.
IsRoundedMeanLess(r) ==
    LET a == 2 * MultisetTotal + MultisetSize - 2 * MultisetSize * r
    IN /\ a >= 0 /\ 4 * Spread <= a * a
       /\ \/ a - 2 * MultisetSize < 0
          \/ (a - 2 * MultisetSize) * (a - 2 * MultisetSize) < 4 * Spread

\* r is mean + stdDev rounded: r <= mean + stdDev + 1/2 < r + 1, that is
\* b <= 2 sqrt(Spread) < b + 2 size for b = 2 size r - 2 total - size.
IsRoundedMeanMore(r) ==
    LET b == 2 * MultisetSize * r - 2 * MultisetTotal - MultisetSize
    IN /\ \/ b <= 0
          \/ b * b <= 4 * Spread
       /\ b + 2 * MultisetSize > 0
       /\ 4 * Spread < (b + 2 * MultisetSize) * (b + 2 * MultisetSize)

\* C26: for a non-empty history min <= target <= max, target being the
\* rounded mean of the weighted multiset of draw sums and min, max the
\* rounded mean minus and plus one standard deviation of that multiset.
C26_OptimalSumRange ==
    (pc = "scores" /\ Len(draws) > 0) =>
        LET range == analysis.optimalSumRange
        IN /\ ~range.min.nan /\ ~range.target.nan /\ ~range.max.nan
           /\ range.min.val <= range.target.val
           /\ range.target.val <= range.max.val
           /\ IsRoundedMean(range.target.val)
           /\ IsRoundedMeanLess(range.min.val)
           /\ IsRoundedMeanMore(range.max.val)

\* A history of more than 100 draws, so with sums counted once and sums
\* counted twice, whose range is wider than a point and whose mean and
\* deviation are not integers.
C26_Witness ==
    /\ pc = "scores"
    /\ Len(draws) > 100
    /\ analysis.optimalSumRange.min.val < analysis.optimalSumRange.target.val
    /\ analysis.optimalSumRange.target.val < analysis.optimalSumRange.max.val
    /\ MultisetTotal % MultisetSize # 0
    /\ FloorSqrt(Spread) * FloorSqrt(Spread) # Spread

\* C27: every alternative set consists of 6 pairwise-distinct numbers, the
\* aggressive set (from the due numbers followed by the cold numbers, capped
\* to 15) included.
C27_AlternativeSetsDistinct ==
    pc = "return" =>
        \A k \in DOMAIN alternativeSets :
            /\ Len(alternativeSets[k]) = SetSize
            /\ \A i, j \in DOMAIN alternativeSets[k] :
                   i # j => alternativeSets[k][i] # alternativeSets[k][j]

\* C28: whenever the reasoning list holds the sentence stating that the total
\* sum falls within the weighted optimal range min-max, the sum of the
\* selected numbers satisfies min <= sum <= max.
C28_SumSentenceTrue ==
    (pc = "alternatives" /\ HasSentence("sumWithinRange")) =>
        /\ ~analysis.optimalSumRange.min.nan
        /\ ~analysis.optimalSumRange.max.nan
        /\ analysis.optimalSumRange.min.val <= SeqSum(suggestedNumbers)
        /\ SeqSum(suggestedNumbers) <= analysis.optimalSumRange.max.val

\* The number of draws among the last k that hold n as a main number.
SeenInLast(n, k) ==
    Cardinality({i \in DOMAIN draws : i > Len(draws) - k /\ n \in MainSet(draws[i])})

\* C29: in every analysis snapshot the cold set is disjoint from the hot set
\* and from the avoid set: a cold number has no occurrence in the last 20
\* draws, a hot number occurs in the last 15 and an avoid number occurs 3 or
\* more times in the last 10; so no selected number counts as cold and hot.
C29_ColdDisjoint ==
    /\ pc = "scores" =>
           /\ SeqSet(analysis.coldNumbers) \cap SeqSet(analysis.hotNumbers) = {}
           /\ SeqSet(analysis.coldNumbers) \cap SeqSet(analysis.avoidNumbers) = {}
           /\ \A k \in DOMAIN analysis.coldNumbers :
                  SeenInLast(analysis.coldNumbers[k], 20) = 0
           /\ \A k \in DOMAIN analysis.hotNumbers :
                  SeenInLast(analysis.hotNumbers[k], 15) > 0
           /\ \A k \in DOMAIN analysis.avoidNumbers :
                  SeenInLast(analysis.avoidNumbers[k], 10) >= 3
    /\ pc = "reasoning" =>
           \A i \in DOMAIN suggestedNumbers :
               ~ /\ suggestedNumbers[i] \in SeqSet(analysis.coldNumbers)
                 /\ suggestedNumbers[i] \in SeqSet(analysis.hotNumbers)

\* An analysis of more than 20 draws with cold, hot and avoid numbers, and a
\* number drawn before the last 20 draws that is cold.
C29_Witness ==
    /\ pc = "scores"
    /\ Len(draws) > 20
    /\ analysis.coldNumbers # <<>>
    /\ analysis.hotNumbers # <<>>
    /\ analysis.avoidNumbers # <<>>
    /\ \E k \in DOMAIN analysis.coldNumbers :
           SeenInLast(analysis.coldNumbers[k], Len(draws)) > 0

\* The sum over all numbers of the all-time frequency.
FrequencyTotal == SeqSum([n \in 1..MaxNumber |-> analysis.allTimeFrequency[n]])

\* The closed form of the total weighted draws: 2 x total when total <= 100,
\* else (total - 100) + 200.
ClosedFormTotal == IF Len(draws) <= 100 THEN 2 * Len(draws) ELSE (Len(draws) - 100) + 200

\* C30: the sum over all numbers of allTimeFrequency equals 6 x the total
\* weighted draws: the closed form used for the expected gaps equals the sum
\* of the per-draw weights that the frequency count applies.
C30_FrequencyTotal ==
    pc = "scores" =>
        /\ FrequencyTotal = 6 * ClosedFormTotal
        /\ ClosedFormTotal = MultisetSize
        /\ \A n \in Numbers :
               analysis.expectedGaps[n].numer * analysis.allTimeFrequency[n]
                   = ClosedFormTotal * analysis.expectedGaps[n].denom
               \/ (analysis.allTimeFrequency[n] = 0
                   /\ analysis.expectedGaps[n].numer
                          = ClosedFormTotal * analysis.expectedGaps[n].denom)

\* A history of more than 100 draws in which a number was drawn before the
\* last 100 draws and within them.
C30_Witness ==
    /\ pc = "scores"
    /\ Len(draws) > 100
    /\ ClosedFormTotal < 2 * Len(draws)
    /\ \E n \in Numbers :
           /\ \E i \in DOMAIN draws : ~InLastHundred(draws, i) /\ n \in MainSet(draws[i])
           /\ \E i \in DOMAIN draws : InLastHundred(draws, i) /\ n \in MainSet(draws[i])

====
